---- MODULE Spec2Model ----
(***************************************************************************)
(* Model of the voxel engine's chunk streaming manager                     *)
(* (voxgen/src/renderer/world.rs) and chunk generator                      *)
(* (voxgen/src/world/chunk.rs).                                            *)
(*                                                                         *)
(* Spec      the streaming manager: construction, on_update, render.       *)
(* SpecGen   one call of Chunk::generate with its parallel per-cell map    *)
(*           under every scheduling of the workers.                        *)
(* SpecMesh  Chunk::generate as a function of the chunk position and the   *)
(*           chunk dimensions.                                             *)
(* SpecFn    the index builder, ChunkPos::from_world and                  *)
(*           Chunk::is_pos_in_bounds as functions of their argument.       *)
(* SpecFault the streaming manager and the render call of the main loop    *)
(*           with a device and a surface that may fail.                    *)
(* SpecLoad  on_update step by step, with the threads of the pool that     *)
(*           runs its parallel iterators.                                  *)
(* SpecFrame the frames of the main loop: the camera moves and             *)
(*           Renderer::update runs the streaming manager.                  *)
(* SpecWide  the streaming manager with players far from the origin, in a  *)
(*           build with and in a build without i32 overflow checks.        *)
(* SpecCell  the decoding of a cell index in generate and compute_1d as    *)
(*           functions of their argument.                                  *)
(***************************************************************************)
EXTENDS Integers, Sequences, FiniteSets, TLC

VARIABLES
    chunks,         \* WorldRenderer.chunks: Vec<Chunk>
    chunks_pos,     \* WorldRenderer.chunks_pos: HashSet<ChunkPos>
    next_buffer,    \* the next GPU buffer handle ChunkBuffer::new hands out
    released,       \* buffer handle -> number of times it was dropped
    updates,        \* number of on_update calls so far
    player_pos,     \* the argument player_pos of the last on_update
    player,         \* player_chunk_pos of the last on_update
    dirty,          \* the local `dirty` at the end of the last on_update
    marked,         \* buffers of the chunks the last on_update set loaded = false
    new_positions,  \* the local `new_positions` of the last load_chunks
    draws,          \* the draw_indexed calls render issued since the last on_update
    dims,           \* chunk dimensions of the generate call under study
    gpos,           \* ChunkPos argument of the generate call under study
    gen_pc,         \* position inside generate: "idle", "map", "done"
    pending,        \* cell indices the parallel map has not yet produced
    verts,          \* the collected `verts` vector while it is being filled
    out,            \* <<the value generate returned>>, <<>> before it returns
    prev_out,       \* <<the value the previous call returned>>, <<>> if none
    call,           \* the function called on its own and its argument: [fn, arg]
    ret,            \* <<the value that call returned>>, <<>> before it returns
    frame,          \* the Renderer::render call made since the last update
    update_outcome, \* how the last on_update ended, and whether an allocation failed
    running,        \* the process has not been ended by a panic
    pc,             \* position inside an on_update run step by step
    task,           \* the items of the parallel iterator in progress:
                    \* item -> "pending", "running" or "done"
    results,        \* item -> <<what the closure returned for it>>
    creator,        \* buffer handle -> the thread that created the buffer
    actor,          \* the thread that took the last step
    camera,         \* scene.camera: the world position of the camera
    overflow_checks \* the build panics on i32 overflow (TRUE) or wraps (FALSE)

vars == <<chunks, chunks_pos, next_buffer, released, updates, player_pos,
          player, dirty, marked, new_positions, draws, dims, gpos, gen_pc,
          pending, verts, out, prev_out, call, ret, frame,
          update_outcome, running, pc, task, results, creator, actor,
          camera, overflow_checks>>

streamVars == <<chunks, chunks_pos, next_buffer, released, updates, player_pos,
                player, dirty, marked, new_positions, draws, frame,
                update_outcome, running, camera, overflow_checks>>

genVars == <<dims, gpos, gen_pc, pending, verts, out, prev_out>>

fnVars == <<call, ret>>

loadVars == <<pc, task, results, creator, actor>>

(***************************************************************************)
(* Bounds of the model                                                     *)
(***************************************************************************)
MaxUpdates == 3

\* number of on_update calls when the device and the surface may fail
MaxFaultUpdates == 2
MaxWideUpdates == 3

\* number of on_update calls run step by step, and number of threads of the
\* pool that runs the parallel iterators
MaxLoadUpdates == 2

NumWorkers == 2

\* largest chunk dimension per axis, and largest number of cells of a chunk
\* whose parallel map is run under every scheduling
MaxDim == 3
MaxCells == 8

\* largest vertex count the index builder is called with
MaxVerts == 24

\* largest chunk coordinate (either sign) whose footprint from_world is given
MaxChunk == 3

\* chunk positions generate is called with
GenPositions == {[x |-> 0, z |-> 0], [x |-> 2, z |-> -8], [x |-> -1, z |-> 3]}

\* world-space player coordinates offered to on_update (x and z)
PlayerXs == {-1, 0, 40, 160}
PlayerZs == {0, 50}

(***************************************************************************)
(* Program constants                                                       *)
(***************************************************************************)
RENDER_DISTANCE == 4
CHUNK_WIDTH == 16
CHUNK_HEIGHT == 256
CHUNK_DEPTH == 16

(***************************************************************************)
(* i32 arithmetic: ChunkPos fields, RENDER_DISTANCE and every intermediate *)
(* of on_update and load_chunks are i32.  An operation whose result leaves *)
(* [I32_MIN, I32_MAX] panics when the build has overflow checks and wraps  *)
(* modulo 2^32 when it has not.  The wrapped results are computed on       *)
(* 16-bit limbs, so that no intermediate exceeds 31 bits.                  *)
(***************************************************************************)
I32_MAX == 2147483647
I32_MIN == -I32_MAX - 1
Limb == 65536

add_overflows(a, b) ==
    IF b >= 0 THEN a > I32_MAX - b ELSE a < I32_MIN - b

sub_overflows(a, b) ==
    IF b >= 0 THEN a < I32_MIN + b ELSE a > I32_MAX + b

\* a + b modulo 2^32, as a signed value
wrapping_add(a, b) ==
    IF ~add_overflows(a, b) THEN a + b
    ELSE IF b >= 0 THEN I32_MIN + ((a - (I32_MAX - b)) - 1)
    ELSE I32_MAX - (((I32_MIN - b) - 1) - a)

\* a - b modulo 2^32, as a signed value
wrapping_sub(a, b) ==
    IF ~sub_overflows(a, b) THEN a - b
    ELSE IF b >= 0 THEN I32_MAX - ((b - (a - I32_MIN)) - 1)
    ELSE I32_MIN + ((a - I32_MAX) - (b + 1))

\* |a| as two limbs <<high, low>>
Magnitude(a) ==
    IF a = I32_MIN THEN <<Limb \div 2, 0>>
    ELSE LET m == IF a < 0 THEN -a ELSE a
         IN  <<m \div Limb, m % Limb>>

\* the signed value of the 32-bit pattern <<high, low>>
Signed(hl) ==
    IF hl[1] >= Limb \div 2 THEN (hl[1] - Limb) * Limb + hl[2]
    ELSE hl[1] * Limb + hl[2]

\* two's complement negation of the pattern <<high, low>>
Negated(hl) ==
    <<((Limb - 1) - hl[1] + (IF hl[2] = 0 THEN 1 ELSE 0)) % Limb,
      (Limb - hl[2]) % Limb>>

\* the largest n with n * n <= I32_MAX: a product of two factors of at most
\* this magnitude is within i32
SqrtMax == 46340

NoWiderThanSqrt(a) == -SqrtMax <= a /\ a <= SqrtMax

\* a * b modulo 2^32, as a signed value, for any two i32
WideMul(a, b) ==
    LET ma   == Magnitude(a)
        mb   == Magnitude(b)
        p1   == (ma[2] \div 256) * mb[2]
        p0   == (ma[2] % 256) * mb[2]
        low  == ((p1 % 256) * 256) + (p0 % Limb)
        high == (p1 \div 256) + (p0 \div Limb) + (low \div Limb)
                  + ((ma[1] * mb[2]) % Limb) + ((ma[2] * mb[1]) % Limb)
        u    == <<high % Limb, low % Limb>>
    IN  Signed(IF (a < 0) = (b < 0) THEN u ELSE Negated(u))

\* a * b modulo 2^32, as a signed value
wrapping_mul(a, b) ==
    IF NoWiderThanSqrt(a) /\ NoWiderThanSqrt(b) THEN a * b ELSE WideMul(a, b)

mul_overflows(a, b) ==
    IF NoWiderThanSqrt(a) /\ NoWiderThanSqrt(b) THEN FALSE
    ELSE IF a = 0 \/ b = 0 THEN FALSE
    ELSE IF a = I32_MIN THEN b # 1
    ELSE IF b = I32_MIN THEN a # 1
    ELSE LET ma == IF a < 0 THEN -a ELSE a
             mb == IF b < 0 THEN -b ELSE b
         IN  IF ma <= I32_MAX \div mb THEN FALSE
             ELSE ~( /\ (a < 0) # (b < 0)
                     /\ ma = (I32_MAX \div mb) + 1
                     /\ wrapping_mul(a, b) = I32_MIN )

(***************************************************************************)
(* ChunkPos                                                                *)
(***************************************************************************)
ChunkPosNew(x, z) == [x |-> x, z |-> z]

ORIGIN == ChunkPosNew(0, 0)

\* impl Sub for ChunkPos, without overflow checks
ChunkPosSub(a, b) == [x |-> wrapping_sub(a.x, b.x), z |-> wrapping_sub(a.z, b.z)]

\* division that rounds towards zero
from_world_Truncate(pos) ==
    [x |-> IF pos.x >= 0 THEN pos.x \div CHUNK_WIDTH
                         ELSE -((-pos.x) \div CHUNK_WIDTH),
     z |-> IF pos.z >= 0 THEN pos.z \div CHUNK_DEPTH
                         ELSE -((-pos.z) \div CHUNK_DEPTH)]

\* (pos.x / CHUNK_WIDTH as f32).floor() as i32; \div rounds towards minus
\* infinity, as floor() does
from_world(pos) ==
    [x |-> pos.x \div CHUNK_WIDTH, z |-> pos.z \div CHUNK_DEPTH]

(***************************************************************************)
(* The chunk as the streaming manager sees it                              *)
(***************************************************************************)
\* Chunk::new: generates the mesh, uploads it into a fresh buffer, loaded: true
\* (pos is the field on_update and unload_chunks read as chunk.world_offset)
\* the dimensions the program is compiled with
ChunkDims == [w |-> CHUNK_WIDTH, h |-> CHUNK_HEIGHT, d |-> CHUNK_DEPTH]

\* mesh.num_elements of the mesh generate returns for a chunk of dimensions
\* dm: six indices for every cell face on the boundary of the chunk
MeshElements(dm) == 6 * 2 * (dm.w * dm.h + dm.w * dm.d + dm.h * dm.d)

\* num_elements is mesh.num_elements; indices_len is buffer.indices_len, the
\* element count Chunk::new hands to ChunkBuffer::new
ChunkNew(buffer, pos) ==
    [pos |-> pos, buffer |-> buffer, loaded |-> TRUE,
     num_elements |-> MeshElements(ChunkDims),
     indices_len |-> MeshElements(ChunkDims)]

SeqToSet(s) == {s[i] : i \in 1..Len(s)}

(***************************************************************************)
(* WorldRenderer::on_update, lines 84-92: the marking loop                 *)
(***************************************************************************)
\* coordinates of at most this magnitude differ by less than 2^15, and the
\* sum of two squares of such differences is less than 2^31
NearLimit == 16383

\* both positions are so near the origin that no operation of lines 85-86
\* on them can leave the i32 range
Near(a, b) ==
    /\ -NearLimit <= a.x /\ a.x <= NearLimit /\ -NearLimit <= a.z /\ a.z <= NearLimit
    /\ -NearLimit <= b.x /\ b.x <= NearLimit /\ -NearLimit <= b.z /\ b.z <= NearLimit

\* lines 85-86 in a build without overflow checks
squared_distance(chunk, player_chunk_pos) ==
    IF Near(chunk.pos, player_chunk_pos)
    THEN (chunk.pos.x - player_chunk_pos.x) * (chunk.pos.x - player_chunk_pos.x)
           + (chunk.pos.z - player_chunk_pos.z) * (chunk.pos.z - player_chunk_pos.z)
    ELSE LET distance == ChunkPosSub(chunk.pos, player_chunk_pos)
         IN  wrapping_add(wrapping_mul(distance.x, distance.x),
                          wrapping_mul(distance.z, distance.z))

\* one of the operations of lines 85-86 leaves the i32 range
distance_overflows(chunk, player_chunk_pos) ==
    LET distance == ChunkPosSub(chunk.pos, player_chunk_pos)
    IN  /\ ~Near(chunk.pos, player_chunk_pos)
        /\ \/ sub_overflows(chunk.pos.x, player_chunk_pos.x)
           \/ sub_overflows(chunk.pos.z, player_chunk_pos.z)
           \/ mul_overflows(distance.x, distance.x)
           \/ mul_overflows(distance.z, distance.z)
           \/ add_overflows(wrapping_mul(distance.x, distance.x),
                            wrapping_mul(distance.z, distance.z))

\* the index of the first chunk of the loop whose distance overflows, 0 if
\* there is none
FirstOverflow(chs, player_chunk_pos) ==
    LET over == {i \in 1..Len(chs) : distance_overflows(chs[i], player_chunk_pos)}
    IN  IF over = {} THEN 0 ELSE CHOOSE i \in over : \A j \in over : i <= j

TooFar_Inclusive(chunk, player_chunk_pos) ==
    squared_distance(chunk, player_chunk_pos) >= RENDER_DISTANCE * RENDER_DISTANCE

TooFar(chunk, player_chunk_pos) ==
    squared_distance(chunk, player_chunk_pos) > RENDER_DISTANCE * RENDER_DISTANCE

\* the chunk list after the loop
MarkChunks(chs, player_chunk_pos) ==
    [i \in 1..Len(chs) |->
        IF TooFar(chs[i], player_chunk_pos)
        THEN [chs[i] EXCEPT !.loaded = FALSE]
        ELSE chs[i]]

\* the position set after the loop
MarkPositions(chs, set, player_chunk_pos) ==
    set \ {chs[i].pos : i \in {j \in 1..Len(chs) : TooFar(chs[j], player_chunk_pos)}}

(***************************************************************************)
(* WorldRenderer::unload_chunks                                            *)
(***************************************************************************)
Retained_KeepAll(chs) == chs

\* Vec::retain(|chunk| chunk.loaded): keeps the order of the kept chunks
Retained(chs) == SelectSeq(chs, LAMBDA c : c.loaded)

\* the chunks retain drops; dropping a Chunk drops its ChunkBuffer
Dropped(chs) == SelectSeq(chs, LAMBDA c : ~c.loaded)

UnloadPositions(chs, set) ==
    set \ {chs[i].pos : i \in {j \in 1..Len(chs) : ~chs[j].loaded}}

\* released, after the buffers of the dropped chunks were released
Release(rel, dropped) ==
    [b \in DOMAIN rel |->
        rel[b] + Cardinality({i \in 1..Len(dropped) : dropped[i].buffer = b})]

(***************************************************************************)
(* WorldRenderer::load_chunks                                              *)
(***************************************************************************)
\* (start_z..=end_z).flat_map(|z| (start_x..=end_x).map(|x| ChunkPos::new(x, z)))
\* collected in the order of the sequential iteration
WindowSeq_FullRadius(center) ==
    LET distance == RENDER_DISTANCE
        start_x  == center.x - distance
        end_x    == center.x + distance
        start_z  == center.z - distance
        end_z    == center.z + distance
        nx       == end_x - start_x + 1
        nz       == end_z - start_z + 1
    IN  [k \in 1..(nx * nz) |->
            ChunkPosNew(start_x + ((k - 1) % nx), start_z + ((k - 1) \div nx))]

\* player_pos is the parameter of load_chunks, here `center`
WindowSeq(center) ==
    LET distance == RENDER_DISTANCE \div 2
        start_x  == center.x - distance
        end_x    == center.x + distance
        start_z  == center.z - distance
        end_z    == center.z + distance
        nx       == end_x - start_x + 1
        nz       == end_z - start_z + 1
    IN  [k \in 1..(nx * nz) |->
            ChunkPosNew(start_x + ((k - 1) % nx), start_z + ((k - 1) \div nx))]

\* lines 110-114 in a build without overflow checks
WindowBounds(center) ==
    LET distance == RENDER_DISTANCE \div 2
    IN  [start_x |-> wrapping_sub(center.x, distance),
         end_x   |-> wrapping_add(center.x, distance),
         start_z |-> wrapping_sub(center.z, distance),
         end_z   |-> wrapping_add(center.z, distance)]

\* one of the operations of lines 110-114 leaves the i32 range
bounds_overflow(center) ==
    LET distance == RENDER_DISTANCE \div 2
    IN  \/ sub_overflows(center.x, distance)
        \/ add_overflows(center.x, distance)
        \/ sub_overflows(center.z, distance)
        \/ add_overflows(center.z, distance)

NewPositions_NoFilter(center, set) == WindowSeq(center)

NewPositions_KeepLoaded(center, set) ==
    SelectSeq(WindowSeq(center), LAMBDA p : p \in set)

\* .filter(|chunk_pos| self.chunks_pos.get(chunk_pos).is_none()).collect()
NewPositions(center, set) ==
    SelectSeq(WindowSeq(center), LAMBDA p : p \notin set)

\* new_positions.par_iter().map(|&chunk_pos| Chunk::new(device, chunk_pos))
NewChunks(positions, first_buffer) ==
    [i \in 1..Len(positions) |-> ChunkNew(first_buffer + i - 1, positions[i])]

(***************************************************************************)
(* WorldRenderer::load_initial_chunks                                      *)
(***************************************************************************)
InitialPositions_Window == WindowSeq(ORIGIN)

InitialPositions ==
    LET n == 2 * RENDER_DISTANCE + 1
    IN  [k \in 1..(n * n) |->
            ChunkPosNew(-RENDER_DISTANCE + ((k - 1) \div n),
                        -RENDER_DISTANCE + ((k - 1) % n))]

(***************************************************************************)
(* Chunk generation: voxgen/src/world/chunk.rs                             *)
(*                                                                         *)
(* generate is written over the constants CHUNK_WIDTH, CHUNK_HEIGHT and    *)
(* CHUNK_DEPTH (16 x 256 x 16 = 65536 cells).  The operators below take    *)
(* the dimensions as the record dm = [w, h, d], and the specifications     *)
(* SpecGen and SpecMesh run them for every dimension up to MaxDim.         *)
(***************************************************************************)
AIR == "AIR"
DIRT == "DIRT"
GRASS == "GRASS"

\* Direction::ALL and Direction::normalized
DirectionALL ==
    << [x |-> -1, y |-> 0, z |-> 0], [x |-> 1, y |-> 0, z |-> 0],
       [x |-> 0, y |-> -1, z |-> 0], [x |-> 0, y |-> 1, z |-> 0],
       [x |-> 0, y |-> 0, z |-> -1], [x |-> 0, y |-> 0, z |-> 1] >>

Vec3Add(a, b) == [x |-> a.x + b.x, y |-> a.y + b.y, z |-> a.z + b.z]

\* ChunkPos::to_world
to_world(p, dm) == [x |-> p.x * dm.w, y |-> 0, z |-> p.z * dm.d]

is_pos_in_bounds_Inclusive(pos, dm) ==
    IF pos.x >= 0 /\ pos.y >= 0 /\ pos.z >= 0
    THEN pos.x <= dm.w /\ pos.y <= dm.h /\ pos.z <= dm.d
    ELSE FALSE

is_pos_in_bounds_NoLowerBound(pos, dm) ==
    pos.x < dm.w /\ pos.y < dm.h /\ pos.z < dm.d

\* Chunk::is_pos_in_bounds
is_pos_in_bounds(pos, dm) ==
    IF pos.x >= 0 /\ pos.y >= 0 /\ pos.z >= 0
    THEN pos.x < dm.w /\ pos.y < dm.h /\ pos.z < dm.d
    ELSE FALSE

\* Quad::new(block, dir, translation): the four vertices of one face
QuadNew(block, dir, translation) ==
    [vertices |-> [k \in 1..4 |->
        [at |-> translation, dir |-> dir, block |-> block, corner |-> k - 1]]]

\* lines 53-55: the local position of the cell with linear index `index`
compute_1d_DepthStride(x, y, z, dm) == x + y * dm.w + z * dm.w * dm.d

\* compute_1d(x, y, z) for a chunk of dimensions dm
compute_1d(x, y, z, dm) == x + y * dm.w + z * dm.w * dm.h

\* lines 53-55 of generate: the cell of an index of the parallel range
LocalPos(index, dm) ==
    [x |-> index % dm.w,
     y |-> (index \div dm.w) % dm.h,
     z |-> (index \div (dm.w * dm.h)) % dm.d]

\* lines 57-61
BlockInChunk(local_pos, dm) == IF local_pos.y = dm.h - 1 THEN GRASS ELSE DIRT

\* lines 64-69
Translation(local_pos, pos, dm) ==
    LET world_pos == to_world(pos, dm)
    IN  [x |-> local_pos.x + world_pos.x,
         y |-> local_pos.y,
         z |-> local_pos.z + world_pos.z]

\* lines 73-74: is the face of local_pos towards dir emitted
FaceVisible(local_pos, dir, dm) == ~is_pos_in_bounds(Vec3Add(local_pos, dir), dm)

RECURSIVE VisibleQuads_FirstOnly(_, _, _, _, _)
VisibleQuads_FirstOnly(k, local_pos, block, translation, dm) ==
    IF k > Len(DirectionALL) THEN <<>>
    ELSE IF FaceVisible(local_pos, DirectionALL[k], dm)
         THEN <<QuadNew(block, DirectionALL[k], translation)>>
         ELSE VisibleQuads_FirstOnly(k + 1, local_pos, block, translation, dm)

\* lines 71-78: Direction::ALL.iter().for_each, pushing in iteration order; the
\* `return` leaves the closure of one direction, the loop goes on
RECURSIVE VisibleQuads(_, _, _, _, _)
VisibleQuads(k, local_pos, block, translation, dm) ==
    IF k > Len(DirectionALL) THEN <<>>
    ELSE (IF FaceVisible(local_pos, DirectionALL[k], dm)
          THEN <<QuadNew(block, DirectionALL[k], translation)>>
          ELSE <<>>)
         \o VisibleQuads(k + 1, local_pos, block, translation, dm)

\* lines 52-80: the closure of the parallel map, for one index
CellResult(index, pos, dm) ==
    LET local_pos      == LocalPos(index, dm)
        block_in_chunk == BlockInChunk(local_pos, dm)
        translation    == Translation(local_pos, pos, dm)
    IN  [index |-> index,
         visible_quads |-> VisibleQuads(1, local_pos, block_in_chunk, translation, dm),
         block |-> block_in_chunk]

CollectInto_Append(vs, r) == Append(vs, r)

\* .collect::<Vec<_>>() of an indexed parallel iterator: whichever worker
\* finishes first, an item takes the place of its index in the vector
CollectInto(vs, r) ==
    LET before == SelectSeq(vs, LAMBDA e : e.index < r.index)
        after  == SelectSeq(vs, LAMBDA e : e.index > r.index)
    IN  before \o <<r>> \o after

\* lines 83-89, the vertices: vertices.extend(quad.vertices) per quad
RECURSIVE QuadVertices(_)
QuadVertices(quads) ==
    IF quads = <<>> THEN <<>>
    ELSE Head(quads).vertices \o QuadVertices(Tail(quads))

RECURSIVE FlattenVertices(_)
FlattenVertices(vs) ==
    IF vs = <<>> THEN <<>>
    ELSE QuadVertices(Head(vs).visible_quads) \o FlattenVertices(Tail(vs))

\* lines 46 and 83-89, the blocks: DIRT everywhere, then blocks[index] = block
\* for every collected item that holds a quad; element i + 1 is blocks[i]
FlattenBlocks_DefaultAir(vs, dm) ==
    [i \in 1..(dm.w * dm.h * dm.d) |->
        IF \E k \in 1..Len(vs) : vs[k].index = i - 1 /\ vs[k].visible_quads # <<>>
        THEN (CHOOSE e \in SeqToSet(vs) : e.index = i - 1 /\ e.visible_quads # <<>>).block
        ELSE AIR]

FlattenBlocks(vs, dm) ==
    [i \in 1..(dm.w * dm.h * dm.d) |->
        IF \E k \in 1..Len(vs) : vs[k].index = i - 1 /\ vs[k].visible_quads # <<>>
        THEN (CHOOSE e \in SeqToSet(vs) : e.index = i - 1 /\ e.visible_quads # <<>>).block
        ELSE DIRT]

\* the index builder: [0, 1, 2, 2, 1, 3].cycle().take(vert_length / 4 * 6)
\* .enumerate().map(|(i, b)| i / 6 * 4 + b)
QuadPattern == <<0, 1, 2, 2, 1, 3>>

compute_cube_indices_NoOffset(vert_length) ==
    [j \in 1..((vert_length \div 4) * 6) |-> QuadPattern[((j - 1) % 6) + 1]]

compute_cube_indices(vert_length) ==
    [j \in 1..((vert_length \div 4) * 6) |->
        ((j - 1) \div 6) * 4 + QuadPattern[((j - 1) % 6) + 1]]

ChunkMeshNew_VertexCount(vertices, indices) ==
    [vertices |-> vertices, num_elements |-> Len(vertices), indices |-> indices]

\* ChunkMesh::new
ChunkMeshNew(vertices, indices) ==
    [vertices |-> vertices, num_elements |-> Len(indices), indices |-> indices]

\* lines 83-92: everything generate does after the parallel map has joined
Assemble(vs, dm) ==
    LET vertices == FlattenVertices(vs)
        indices  == compute_cube_indices(Len(vertices))
    IN  [blocks |-> FlattenBlocks(vs, dm), mesh |-> ChunkMeshNew(vertices, indices)]

\* the collected vector once every cell 0..n-1 has been produced
RECURSIVE Collected(_, _, _)
Collected(n, pos, dm) ==
    IF n = 0 THEN <<>>
    ELSE CollectInto(Collected(n - 1, pos, dm), CellResult(n - 1, pos, dm))

\* Chunk::generate(pos)
generate(pos, dm) == Assemble(Collected(dm.w * dm.h * dm.d, pos, dm), dm)

(***************************************************************************)
(* State after WorldRenderer::new                                          *)
(***************************************************************************)
\* ChunkBuffer::new(device, vertices, indices, num_elements): returns the
\* buffer, or does not return when the device cannot allocate it
ChunkBufferNew(alloc_ok) == IF alloc_ok THEN "created" ELSE "panic"

load_chunks_ExtendFirst(center, cs, set, first_buffer, alloc_ok) ==
    LET positions == NewPositions(center, set)
        extended  == set \cup SeqToSet(positions)
    IN  IF positions # <<>> /\ ChunkBufferNew(alloc_ok) = "panic"
        THEN [chunks |-> cs, chunks_pos |-> extended,
              new_positions |-> positions, panicked |-> TRUE]
        ELSE [chunks |-> cs \o NewChunks(positions, first_buffer),
              chunks_pos |-> extended,
              new_positions |-> positions, panicked |-> FALSE]

\* load_chunks(player_pos, device): Chunk::new returns Self, so a chunk whose
\* buffer cannot be created ends the parallel map with a panic, which rayon
\* hands to the caller of collect: neither extend is reached
load_chunks(center, cs, set, first_buffer, alloc_ok) ==
    LET positions == NewPositions(center, set)
    IN  IF positions # <<>> /\ ChunkBufferNew(alloc_ok) = "panic"
        THEN [chunks |-> cs, chunks_pos |-> set,
              new_positions |-> positions, panicked |-> TRUE]
        ELSE [chunks |-> cs \o NewChunks(positions, first_buffer),
              chunks_pos |-> set \cup SeqToSet(positions),
              new_positions |-> positions, panicked |-> FALSE]

\* Renderer::render up to its return value: the `?` on get_current_texture
\* returns the error before the encoder, the pass, submit and present
RendererRender(acquired) ==
    IF acquired
    THEN [surface |-> "acquired", result |-> "ok", submitted |-> TRUE, presented |-> TRUE]
    ELSE [surface |-> "lost", result |-> "err", submitted |-> FALSE, presented |-> FALSE]

HandleRenderResult_Unwrap(result) ==
    [logged |-> FALSE, running |-> result # "err"]

\* the match on the value render returned: Ok(_) => (), Err(e) => log::error!
HandleRenderResult(result) ==
    [logged |-> result = "err", running |-> TRUE]

\* Vec3::zero()
Vec3Zero == [x |-> 0, y |-> 0, z |-> 0]

\* no render call yet
NoFrame ==
    [surface |-> "none", result |-> "none", submitted |-> FALSE,
     presented |-> FALSE, logged |-> FALSE]

\* no on_update call yet
NoUpdate == [alloc_failed |-> FALSE, overflowed |-> FALSE, result |-> "none"]

Constructed ==
    /\ chunks = NewChunks(InitialPositions, 1)
    /\ chunks_pos = SeqToSet(InitialPositions)
    /\ next_buffer = Len(InitialPositions) + 1
    /\ released = [b \in 1..Len(InitialPositions) |-> 0]
    /\ updates = 0
    /\ player_pos = [x |-> 0, y |-> 0, z |-> 0]
    /\ player = ORIGIN
    /\ dirty = FALSE
    /\ marked = {}
    /\ new_positions = <<>>
    /\ draws = <<>>
    /\ frame = NoFrame
    /\ update_outcome = NoUpdate
    /\ running = TRUE
    /\ camera = Vec3Zero

\* the program built with overflow checks, as the dev profile builds it
InitStream == Constructed /\ overflow_checks = TRUE

GenIdle ==
    /\ dims = [w |-> CHUNK_WIDTH, h |-> CHUNK_HEIGHT, d |-> CHUNK_DEPTH]
    /\ gpos = ORIGIN
    /\ gen_pc = "idle"
    /\ pending = {}
    /\ verts = <<>>
    /\ out = <<>>
    /\ prev_out = <<>>

\* no function is called on its own
NoCall ==
    /\ call = [fn |-> "none", arg |-> 0]
    /\ ret = <<>>

\* no on_update is run step by step; the threads are not told apart
NoLoad ==
    /\ pc = "idle"
    /\ task = <<>>
    /\ results = <<>>
    /\ creator = <<>>
    /\ actor = "main"

Init == InitStream /\ GenIdle /\ NoCall /\ NoLoad

(***************************************************************************)
(* WorldRenderer::on_update(player_pos, device)                            *)
(***************************************************************************)
OnUpdate(pos, alloc_ok) ==
    LET player_chunk_pos == from_world(pos)
        \* the loop ends in a panic at the first overflow of a checked build
        stop        == IF overflow_checks
                       THEN FirstOverflow(chunks, player_chunk_pos) ELSE 0
        visited     == SubSeq(chunks, 1, stop - 1)
        chunks1     == MarkChunks(chunks, player_chunk_pos)
        pos1        == MarkPositions(chunks, chunks_pos, player_chunk_pos)
        is_dirty    == \E i \in 1..Len(chunks) : TooFar(chunks[i], player_chunk_pos)
        \* unload_chunks
        chunks2     == Retained(chunks1)
        pos2        == UnloadPositions(chunks1, pos1)
        loaded      == load_chunks(player_chunk_pos, chunks2, pos2, next_buffer, alloc_ok)
        panicked    == is_dirty /\ loaded.panicked
        created     == IF panicked THEN 0 ELSE Len(loaded.new_positions)
    IN  /\ running
        /\ updates < MaxUpdates
        /\ updates' = updates + 1
        /\ player_pos' = pos
        /\ player' = player_chunk_pos
        /\ IF stop # 0
           THEN \* the chunks before the overflowing one have been visited
                /\ chunks' = MarkChunks(visited, player_chunk_pos)
                                \o SubSeq(chunks, stop, Len(chunks))
                /\ chunks_pos' = MarkPositions(visited, chunks_pos, player_chunk_pos)
                /\ dirty' = \E i \in 1..Len(visited) :
                                TooFar(visited[i], player_chunk_pos)
                /\ marked' = {visited[i].buffer :
                                i \in {j \in 1..Len(visited) :
                                          TooFar(visited[j], player_chunk_pos)}}
                /\ new_positions' = <<>>
                /\ update_outcome' = [alloc_failed |-> FALSE, overflowed |-> TRUE,
                                      result |-> "panic"]
                /\ running' = FALSE
                /\ UNCHANGED <<released, next_buffer>>
           ELSE /\ dirty' = is_dirty
                /\ marked' = {chunks1[i].buffer :
                                i \in {j \in 1..Len(chunks1) : ~chunks1[j].loaded}}
                /\ IF is_dirty
                   THEN /\ chunks' = loaded.chunks
                        /\ chunks_pos' = loaded.chunks_pos
                        /\ released' = [b \in 1..(next_buffer + created - 1) |->
                                          IF b \in DOMAIN released
                                          THEN Release(released, Dropped(chunks1))[b]
                                          ELSE 0]
                        /\ next_buffer' = next_buffer + created
                        /\ new_positions' = loaded.new_positions
                   ELSE /\ chunks' = chunks1
                        /\ chunks_pos' = pos1
                        /\ new_positions' = <<>>
                        /\ UNCHANGED <<released, next_buffer>>
                /\ update_outcome' = [alloc_failed |-> panicked, overflowed |-> FALSE,
                                      result |-> IF panicked THEN "panic" ELSE "ok"]
                /\ running' = ~panicked
        /\ draws' = <<>>
        /\ frame' = NoFrame
        /\ UNCHANGED <<camera, overflow_checks>>
        /\ UNCHANGED <<genVars, fnVars, loadVars>>

(***************************************************************************)
(* WorldRenderer::render(render_pass)                                      *)
(***************************************************************************)
WorldRendererRender_SkipLast(cs, rel) ==
    [i \in 1..(Len(cs) - 1) |->
        [buffer  |-> cs[i].buffer,
         indices |-> cs[i].indices_len,
         live    |-> rel[cs[i].buffer] = 0]]

\* WorldRenderer::render: for chunk in &self.chunks, set the buffers of the
\* chunk and draw_indexed(0..chunk.buffer.indices_len, 0, 0..1)
WorldRendererRender(cs, rel) ==
    [i \in 1..Len(cs) |->
        [buffer  |-> cs[i].buffer,
         indices |-> cs[i].indices_len,
         live    |-> rel[cs[i].buffer] = 0]]

\* the render call of the main loop and the match on its result; the draw
\* calls are those of WorldRenderer::render
Render(acquired) ==
    LET r == RendererRender(acquired)
        h == HandleRenderResult(r.result)
    IN  /\ running
        /\ frame' = [surface |-> r.surface, result |-> r.result,
                     submitted |-> r.submitted, presented |-> r.presented,
                     logged |-> h.logged]
        /\ running' = h.running
        /\ draws' = IF acquired THEN WorldRendererRender(chunks, released) ELSE draws
        /\ <<frame', draws'>> # <<frame, draws>>
        /\ UNCHANGED <<chunks, chunks_pos, next_buffer, released, updates, player_pos,
                       player, dirty, marked, new_positions, update_outcome,
                       camera, overflow_checks>>
        /\ UNCHANGED <<genVars, fnVars, loadVars>>

\* the program with a device that allocates every buffer and a surface that
\* hands out every frame
Next ==
    \/ \E x \in PlayerXs, z \in PlayerZs : OnUpdate([x |-> x, y |-> 0, z |-> z], TRUE)
    \/ Render(TRUE)

Spec == Init /\ [][Next]_vars

\* the program with a device that may fail to allocate a buffer and a surface
\* that may fail to hand out a frame
NextFault ==
    \/ \E x \in PlayerXs, z \in PlayerZs : \E alloc_ok \in BOOLEAN :
          /\ updates < MaxFaultUpdates
          /\ OnUpdate([x |-> x, y |-> 0, z |-> z], alloc_ok)
    \/ \E acquired \in BOOLEAN : Render(acquired)

SpecFault == Init /\ [][NextFault]_vars

(***************************************************************************)
(* SpecWide: the streaming manager with players far from the origin, in a  *)
(* build with and in a build without overflow checks                       *)
(***************************************************************************)
\* world x of a player: chunk 0, chunk 10, chunk 46341 (the square of its
\* distance to the chunks of column -4 exceeds I32_MAX) and chunk 50000 (the
\* square of its distance to every chunk of the initial load does)
WidePlayerXs == {0, 160, 46341 * CHUNK_WIDTH, 50000 * CHUNK_WIDTH}

InitWide ==
    /\ Constructed
    /\ overflow_checks \in BOOLEAN
    /\ GenIdle
    /\ NoCall
    /\ NoLoad

NextWide ==
    \/ \E x \in WidePlayerXs :
          /\ updates < MaxWideUpdates
          /\ OnUpdate([x |-> x, y |-> 0, z |-> 0], TRUE)
    \/ Render(TRUE)

SpecWide == InitWide /\ [][NextWide]_vars

(***************************************************************************)
(* SpecFrame: the frames of the main loop: Renderer::update, the camera    *)
(* moved by the scene, Renderer::render                                    *)
(***************************************************************************)
\* heights of the camera
CameraYs == {0, 70}

CameraPositions ==
    {[x |-> x, y |-> y, z |-> z] : x \in PlayerXs, y \in CameraYs, z \in PlayerZs}

\* Renderer::update, line 178: the position handed to the streaming manager
\* is Vec3::zero(), whatever the camera just written to the uniform is
RendererUpdateArg(cam) == Vec3Zero

\* scene.update(dt): the camera controller moves the camera
MoveCamera(pos) ==
    /\ running
    /\ camera # pos
    /\ camera' = pos
    /\ UNCHANGED <<chunks, chunks_pos, next_buffer, released, updates, player_pos,
                   player, dirty, marked, new_positions, draws, frame,
                   update_outcome, running, overflow_checks>>
    /\ UNCHANGED <<genVars, fnVars, loadVars>>

\* Renderer::update(scene, dt)
RendererUpdate == OnUpdate(RendererUpdateArg(camera), TRUE)

NextFrame ==
    \/ \E pos \in CameraPositions : MoveCamera(pos)
    \/ RendererUpdate
    \/ Render(TRUE)

SpecFrame == Init /\ [][NextFrame]_vars

(***************************************************************************)
(* SpecLoad: on_update run step by step, the closures of its two parallel  *)
(* iterators run by the threads of the pool in every order                 *)
(***************************************************************************)
\* the positions on_update is called with: the origin chunk, where the
\* window is loaded already, and chunk (3, 0), where one column is not
LoadPlayers ==
    {[x |-> 0, y |-> 0, z |-> 0], [x |-> 3 * CHUNK_WIDTH, y |-> 0, z |-> 0]}

\* (start_z..=end_z).into_par_iter(): the z of the k-th item
WindowRows(center) ==
    LET distance == RENDER_DISTANCE \div 2
    IN  [k \in 1..(2 * distance + 1) |-> center.z - distance + k - 1]

FilterRow_NoFilter(z, center, set) ==
    LET distance == RENDER_DISTANCE \div 2
    IN  [k \in 1..(2 * distance + 1) |-> ChunkPosNew(center.x - distance + k - 1, z)]

\* what one item z of the outer iterator contributes: the positions of its
\* row, in the order of x, that the filter closure finds missing in the set
\* (the closure only reads chunks_pos, so the reads of one row are one step)
FilterRow(z, center, set) ==
    LET distance == RENDER_DISTANCE \div 2
        row == [k \in 1..(2 * distance + 1) |->
                   ChunkPosNew(center.x - distance + k - 1, z)]
    IN  SelectSeq(row, LAMBDA p : p \notin set)

\* collect(): the results of the first n items, in the order of the items
\* (an item that has returned nothing contributes nothing)
RECURSIVE CollectRows(_, _)
CollectRows(rs, n) ==
    IF n = 0 THEN <<>>
    ELSE CollectRows(rs, n - 1) \o (IF rs[n] = <<>> THEN <<>> ELSE rs[n][1])

RECURSIVE CollectChunks(_, _)
CollectChunks(rs, n) ==
    IF n = 0 THEN <<>>
    ELSE CollectChunks(rs, n - 1) \o rs[n]

Running(t) == {k \in DOMAIN t : t[k] = "running"}

Joined_FirstDone(t) == IF DOMAIN t = {} THEN TRUE ELSE t[1] = "done"

\* collect() returns to the calling thread when every item has been run
Joined(t) == \A k \in DOMAIN t : t[k] = "done"

\* the thread that runs a closure of a parallel iterator
PoolThread == "worker"

InitLoad ==
    /\ InitStream
    /\ GenIdle
    /\ NoCall
    /\ pc = "idle"
    /\ task = <<>>
    /\ results = <<>>
    /\ creator = [b \in 1..Len(InitialPositions) |-> "main"]
    /\ actor = "main"

restOfLoad == <<draws, frame, update_outcome, running, camera, overflow_checks,
                genVars, fnVars>>

\* on_update is called: line 82
BeginUpdate(pos) ==
    /\ pc = "idle"
    /\ updates < MaxLoadUpdates
    /\ updates' = updates + 1
    /\ player_pos' = pos
    /\ player' = from_world(pos)
    /\ dirty' = FALSE
    /\ marked' = {}
    /\ new_positions' = <<>>
    /\ pc' = "mark"
    /\ actor' = "main"
    /\ UNCHANGED <<chunks, chunks_pos, next_buffer, released, task, results, creator>>
    /\ UNCHANGED restOfLoad

\* lines 84-94: the loop over the chunks, run by the calling thread
Mark ==
    /\ pc = "mark"
    /\ chunks' = MarkChunks(chunks, player)
    /\ chunks_pos' = MarkPositions(chunks, chunks_pos, player)
    /\ dirty' = \E i \in 1..Len(chunks) : TooFar(chunks[i], player)
    /\ marked' = {chunks'[i].buffer : i \in {j \in 1..Len(chunks) : ~chunks'[j].loaded}}
    /\ pc' = IF dirty' THEN "unload" ELSE "idle"
    /\ actor' = "main"
    /\ UNCHANGED <<next_buffer, released, updates, player_pos, player,
                   new_positions, task, results, creator>>
    /\ UNCHANGED restOfLoad

\* line 96 and the head of load_chunks: unload_chunks, then the first
\* parallel iterator is set up over the rows of the window
Unload ==
    /\ pc = "unload"
    /\ chunks' = Retained(chunks)
    /\ chunks_pos' = UnloadPositions(chunks, chunks_pos)
    /\ released' = Release(released, Dropped(chunks))
    /\ pc' = "filter"
    /\ task' = [k \in 1..Len(WindowRows(player)) |-> "pending"]
    /\ results' = [k \in 1..Len(WindowRows(player)) |-> <<>>]
    /\ actor' = "main"
    /\ UNCHANGED <<next_buffer, updates, player_pos, player, dirty, marked,
                   new_positions, creator>>
    /\ UNCHANGED restOfLoad

\* a thread of the pool takes an item of the iterator in progress
StartItem(k) ==
    /\ pc \in {"filter", "create"}
    /\ k \in DOMAIN task
    /\ task[k] = "pending"
    /\ Cardinality(Running(task)) < NumWorkers
    /\ task' = [task EXCEPT ![k] = "running"]
    /\ actor' = PoolThread
    /\ UNCHANGED <<pc, results, creator>>
    /\ UNCHANGED <<streamVars, genVars, fnVars>>

\* lines 116-125: the thread finishes a row: flat_map, map and filter
FinishFilter(k) ==
    /\ pc = "filter"
    /\ k \in DOMAIN task
    /\ task[k] = "running"
    /\ results' = [results EXCEPT ![k] = <<FilterRow(WindowRows(player)[k], player, chunks_pos)>>]
    /\ task' = [task EXCEPT ![k] = "done"]
    /\ actor' = PoolThread
    /\ UNCHANGED <<pc, creator>>
    /\ UNCHANGED <<streamVars, genVars, fnVars>>

\* line 125: collect() returns new_positions; lines 127-129 set up the
\* second parallel iterator over them
JoinFilter ==
    /\ pc = "filter"
    /\ Joined(task)
    /\ new_positions' = CollectRows(results, Len(results))
    /\ pc' = "create"
    /\ task' = [k \in 1..Len(new_positions') |-> "pending"]
    /\ results' = [k \in 1..Len(new_positions') |-> <<>>]
    /\ actor' = "main"
    /\ UNCHANGED <<chunks, chunks_pos, next_buffer, released, updates, player_pos,
                   player, dirty, marked, creator>>
    /\ UNCHANGED restOfLoad

\* lines 129-130: the closure |&chunk_pos| Chunk::new(device, chunk_pos) for
\* one position: generate, then ChunkBuffer::new, both on the thread that
\* runs the closure; the buffer of the k-th new chunk is named by k
FinishCreate(k) ==
    /\ pc = "create"
    /\ k \in DOMAIN task
    /\ task[k] = "running"
    /\ results' = [results EXCEPT ![k] = <<ChunkNew(next_buffer + k - 1, new_positions[k])>>]
    /\ creator' = [b \in DOMAIN creator \cup {next_buffer + k - 1} |->
                      IF b = next_buffer + k - 1 THEN PoolThread ELSE creator[b]]
    /\ task' = [task EXCEPT ![k] = "done"]
    /\ actor' = PoolThread
    /\ UNCHANGED pc
    /\ UNCHANGED <<streamVars, genVars, fnVars>>

\* line 131: collect() returns new_chunks
JoinCreate ==
    /\ pc = "create"
    /\ Joined(task)
    /\ pc' = "merge_set"
    /\ actor' = "main"
    /\ UNCHANGED <<task, results, creator>>
    /\ UNCHANGED <<streamVars, genVars, fnVars>>

\* line 132: self.chunks_pos.extend(new_positions)
MergeSet ==
    /\ pc = "merge_set"
    /\ chunks_pos' = chunks_pos \cup SeqToSet(new_positions)
    /\ pc' = "merge_list"
    /\ actor' = "main"
    /\ UNCHANGED <<chunks, next_buffer, released, updates, player_pos, player,
                   dirty, marked, new_positions, task, results, creator>>
    /\ UNCHANGED restOfLoad

\* line 133: self.chunks.extend(new_chunks); on_update returns
MergeList ==
    /\ pc = "merge_list"
    /\ chunks' = chunks \o CollectChunks(results, Len(results))
    /\ next_buffer' = next_buffer + Len(results)
    /\ released' = [b \in 1..(next_buffer + Len(results) - 1) |->
                      IF b \in DOMAIN released THEN released[b] ELSE 0]
    /\ pc' = "idle"
    /\ task' = <<>>
    /\ results' = <<>>
    /\ actor' = "main"
    /\ UNCHANGED <<chunks_pos, updates, player_pos, player, dirty, marked,
                   new_positions, creator>>
    /\ UNCHANGED restOfLoad

NextLoad ==
    \/ \E pos \in LoadPlayers : BeginUpdate(pos)
    \/ Mark
    \/ Unload
    \/ \E k \in 1..Len(WindowSeq(ORIGIN)) : StartItem(k)
    \/ \E k \in 1..Len(WindowSeq(ORIGIN)) : FinishFilter(k)
    \/ JoinFilter
    \/ \E k \in 1..Len(WindowSeq(ORIGIN)) : FinishCreate(k)
    \/ JoinCreate
    \/ MergeSet
    \/ MergeList

SpecLoad == InitLoad /\ [][NextLoad]_vars

(***************************************************************************)
(* Properties of the streaming manager, checked under Spec                 *)
(***************************************************************************)
LoadedIndices == {i \in 1..Len(chunks) : chunks[i].loaded}

Square(n) == n * n

\* squared distance, in chunk-grid units, between two chunk positions
GridDistance2(c, p) == Square(c.x - p.x) + Square(c.z - p.z)

\* the chunk positions of the square of half-width r around p
SquareAround(p, r) ==
    {ChunkPosNew(x, z) : x \in (p.x - r)..(p.x + r), z \in (p.z - r)..(p.z + r)}

\* C1: after the initial load and after every on_update the position set and
\* the chunk list correspond one to one: every position of the set has
\* exactly one chunk, which is loaded; every loaded chunk has its position
\* in the set; the list holds no position twice.
StreamingInvariant ==
    /\ \A p \in chunks_pos :
          Cardinality({i \in LoadedIndices : chunks[i].pos = p}) = 1
    /\ \A i \in LoadedIndices : chunks[i].pos \in chunks_pos
    /\ Cardinality(chunks_pos) = Cardinality(LoadedIndices)
    /\ \A i, j \in 1..Len(chunks) : chunks[i].pos = chunks[j].pos => i = j

\* a second update that evicted, kept and loaded chunks
StreamingWitness ==
    /\ updates >= 2
    /\ dirty
    /\ new_positions # <<>>
    /\ \E i \in 1..Len(chunks) : chunks[i].buffer < next_buffer - Len(new_positions)

\* C2: from the initial load, one on_update with the player ten chunks
\* along +x (world x = 160) that returns leaves no initially loaded position
\* loaded, and the loaded set is exactly the window [8,12] x [-2,2].
EvictionScenario ==
    (/\ updates = 1
     /\ update_outcome.result = "ok"
     /\ player_pos = [x |-> 10 * CHUNK_WIDTH, y |-> 0, z |-> 0]) =>
        /\ chunks_pos \cap SeqToSet(InitialPositions) = {}
        /\ chunks_pos = {ChunkPosNew(x, z) : x \in 8..12, z \in -2..2}
        /\ \A x \in 8..12, z \in -2..2 :
              \E i \in LoadedIndices : chunks[i].pos = ChunkPosNew(x, z)

EvictionScenarioWitness ==
    /\ updates = 1
    /\ update_outcome.result = "ok"
    /\ player_pos = [x |-> 10 * CHUNK_WIDTH, y |-> 0, z |-> 0]
    /\ player = ChunkPosNew(10, 0)
    /\ Cardinality(marked) = Square(2 * RENDER_DISTANCE + 1)

\* C3: on_update marks a loaded chunk at c unloaded and removes c from the
\* position set iff (c.x - p.x)^2 + (c.z - p.z)^2 > RENDER_DISTANCE^2, p the
\* chunk of the player position, the deltas in chunk-grid units; a chunk at
\* squared distance exactly RENDER_DISTANCE^2 stays.
EvictionRule ==
    [][updates' = updates + 1 =>
        LET p == [x |-> player_pos'.x \div CHUNK_WIDTH,
                  z |-> player_pos'.z \div CHUNK_DEPTH]
        IN  \A i \in 1..Len(chunks) :
              LET c   == chunks[i].pos
                  far == GridDistance2(c, p) > Square(RENDER_DISTANCE)
              IN  /\ (chunks[i].buffer \in marked') <=> far
                  /\ (c \notin chunks_pos') <=> far
                  /\ (\E j \in 1..Len(chunks') : chunks'[j] = chunks[i]) <=> ~far
                  /\ GridDistance2(c, p) = Square(RENDER_DISTANCE)
                        => chunks[i].buffer \notin marked' /\ c \in chunks_pos'
    ]_vars

\* an update kept a chunk at squared distance exactly 16 and evicted others
EvictionRuleWitness ==
    /\ updates >= 1
    /\ marked # {}
    /\ \E i \in 1..Len(chunks) :
          /\ GridDistance2(chunks[i].pos, player) = Square(RENDER_DISTANCE)
          /\ chunks[i].buffer < next_buffer - Len(new_positions)

\* C4: load_chunks(center) considers exactly the positions of the square
\* [center.x - R/2, center.x + R/2] x [center.z - R/2, center.z + R/2]
\* ((2*(R/2)+1)^2 of them, 25), generates one chunk for each of them that is
\* not in the position set and adds exactly those; loaded positions are
\* neither generated again nor removed (load_chunks returning).
WindowEnumeration ==
    [][(updates' = updates + 1 /\ dirty' /\ update_outcome'.result = "ok") =>
        LET before == {c \in chunks_pos : GridDistance2(c, player') <= Square(RENDER_DISTANCE)}
            window == SquareAround(player', RENDER_DISTANCE \div 2)
            fresh  == {j \in 1..Len(chunks') : chunks'[j].buffer >= next_buffer}
        IN  /\ Cardinality(window) = Square(2 * (RENDER_DISTANCE \div 2) + 1)
            /\ Cardinality(window) = 25
            /\ SeqToSet(new_positions') = window \ before
            /\ Len(new_positions') = Cardinality(window \ before)
            /\ chunks_pos' = before \cup window
            /\ {chunks'[j].pos : j \in fresh} = window \ before
            /\ Cardinality(fresh) = Cardinality(window \ before)
            /\ \A i \in 1..Len(chunks) :
                  chunks[i].pos \in before =>
                      \E j \in 1..Len(chunks') : chunks'[j] = chunks[i]
    ]_vars

\* load_chunks found part of its window loaded and generated the rest
WindowEnumerationWitness ==
    /\ dirty
    /\ update_outcome.result = "ok"
    /\ Len(new_positions) > 0
    /\ Len(new_positions) < 25
    /\ SeqToSet(new_positions) \subseteq SquareAround(player, RENDER_DISTANCE \div 2)

\* C5 as stated: right after construction the loaded positions are the
\* window load_chunks enumerates for the origin chunk, [-R/2, R/2]^2.
InitialLoadIsWindow ==
    updates = 0 =>
        /\ chunks_pos = SquareAround(ORIGIN, RENDER_DISTANCE \div 2)
        /\ Len(chunks) = Square(2 * (RENDER_DISTANCE \div 2) + 1)

\* C5 amended: right after construction the loaded positions are the square
\* [-R, R] x [-R, R] around the origin chunk ((2R+1)^2 = 81 positions), each
\* with one loaded chunk, and nothing was removed or released.
InitialLoad ==
    updates = 0 =>
        /\ chunks_pos = SquareAround(ORIGIN, RENDER_DISTANCE)
        /\ Cardinality(chunks_pos) = 81
        /\ Len(chunks) = 81
        /\ \A p \in chunks_pos :
              Cardinality({i \in LoadedIndices : chunks[i].pos = p}) = 1
        /\ marked = {}
        /\ \A b \in DOMAIN released : released[b] = 0

InitialLoadWitness ==
    /\ updates = 0
    /\ Len(chunks) > 0
    /\ ChunkPosNew(RENDER_DISTANCE, -RENDER_DISTANCE) \in chunks_pos

\* C6: a chunk's buffer is released exactly once, by the eviction sweep of
\* the on_update that marked the chunk, and never while the chunk is in the
\* list; render draws no released buffer.
HeldBuffers == {chunks[i].buffer : i \in 1..Len(chunks)}

BufferLifetime ==
    /\ [](/\ \A b \in DOMAIN released : released[b] <= 1
          /\ \A b \in DOMAIN released : (released[b] = 1) <=> (b \notin HeldBuffers)
          /\ HeldBuffers \subseteq DOMAIN released
          /\ \A i, j \in 1..Len(chunks) : chunks[i].buffer = chunks[j].buffer => i = j
          /\ \A b \in marked : released[b] = 1
          /\ \A k \in 1..Len(draws) : draws[k].live)
    /\ [][\A b \in DOMAIN released :
             released'[b] # released[b] =>
                /\ updates' = updates + 1
                /\ b \in marked'
                /\ b \in HeldBuffers
                /\ released'[b] = released[b] + 1]_vars

\* render ran after an update that released buffers
BufferLifetimeWitness ==
    /\ draws # <<>>
    /\ \E b \in DOMAIN released : released[b] = 1 /\ b \in marked
    /\ \E k \in 1..Len(draws) : draws[k].buffer >= next_buffer - Len(new_positions)

(***************************************************************************)
(* SpecGen: one call of generate, then a second one with the same          *)
(* argument; the cells of the parallel map are produced in any order       *)
(***************************************************************************)
NoStream ==
    /\ chunks = <<>>
    /\ chunks_pos = {}
    /\ next_buffer = 1
    /\ released = <<>>
    /\ updates = 0
    /\ player_pos = [x |-> 0, y |-> 0, z |-> 0]
    /\ player = ORIGIN
    /\ dirty = FALSE
    /\ marked = {}
    /\ new_positions = <<>>
    /\ draws = <<>>
    /\ frame = NoFrame
    /\ update_outcome = NoUpdate
    /\ running = TRUE
    /\ camera = Vec3Zero

AllDims == [w : 1..MaxDim, h : 1..MaxDim, d : 1..MaxDim]

InitGen ==
    /\ NoStream
    /\ overflow_checks = TRUE
    /\ dims \in {dm \in AllDims : dm.w * dm.h * dm.d <= MaxCells}
    /\ gpos \in GenPositions
    /\ gen_pc = "map"
    /\ pending = 0..(dims.w * dims.h * dims.d - 1)
    /\ verts = <<>>
    /\ out = <<>>
    /\ prev_out = <<>>
    /\ NoCall
    /\ NoLoad

\* a worker runs the closure for one index and hands the item to collect
MapCell(index) ==
    /\ gen_pc = "map"
    /\ index \in pending
    /\ verts' = CollectInto(verts, CellResult(index, gpos, dims))
    /\ pending' = pending \ {index}
    /\ UNCHANGED <<dims, gpos, gen_pc, out, prev_out>>
    /\ UNCHANGED <<streamVars, fnVars, loadVars>>

\* the map has joined: the sequential rest of generate
Join ==
    /\ gen_pc = "map"
    /\ pending = {}
    /\ out' = <<Assemble(verts, dims)>>
    /\ gen_pc' = "done"
    /\ UNCHANGED <<dims, gpos, pending, verts, prev_out>>
    /\ UNCHANGED <<streamVars, fnVars, loadVars>>

\* generate is called a second time with the same position
CallAgain ==
    /\ gen_pc = "done"
    /\ prev_out = <<>>
    /\ prev_out' = out
    /\ out' = <<>>
    /\ gen_pc' = "map"
    /\ pending' = 0..(dims.w * dims.h * dims.d - 1)
    /\ verts' = <<>>
    /\ UNCHANGED <<dims, gpos>>
    /\ UNCHANGED <<streamVars, fnVars, loadVars>>

NextGen ==
    \/ \E index \in 0..(MaxCells + 1) : MapCell(index)
    \/ Join
    \/ CallAgain

SpecGen == InitGen /\ [][NextGen]_vars

(***************************************************************************)
(* SpecMesh: generate as a function of its argument and the dimensions     *)
(***************************************************************************)
InitMesh ==
    /\ NoStream
    /\ overflow_checks = TRUE
    /\ dims \in AllDims
    /\ gpos \in GenPositions
    /\ gen_pc = "idle"
    /\ pending = {}
    /\ verts = <<>>
    /\ out = <<>>
    /\ prev_out = <<>>
    /\ NoCall
    /\ NoLoad

Generate ==
    /\ gen_pc = "idle"
    /\ out' = <<generate(gpos, dims)>>
    /\ gen_pc' = "done"
    /\ UNCHANGED <<dims, gpos, pending, verts, prev_out>>
    /\ UNCHANGED <<streamVars, fnVars, loadVars>>

NextMesh == Generate

SpecMesh == InitMesh /\ [][NextMesh]_vars

(***************************************************************************)
(* SpecFn: the index builder, ChunkPos::from_world and                     *)
(* Chunk::is_pos_in_bounds, each called once on an argument of its domain  *)
(***************************************************************************)
\* world coordinates inside the footprint of chunk coordinate c, along an
\* axis of `size` blocks: both ends, the second block and the middle
Footprint(c, size) == {c * size + o : o \in {0, 1, size \div 2, size - 1}}

WorldPoints ==
    {[x |-> wx, y |-> 0, z |-> wz] :
        wx \in UNION {Footprint(c, CHUNK_WIDTH) : c \in -MaxChunk..MaxChunk},
        wz \in UNION {Footprint(c, CHUNK_DEPTH) : c \in -MaxChunk..MaxChunk}}
    \cup {[x |-> 32, y |-> 0, z |-> -128]}

\* coordinates around both ends of the range 0..size-1
AroundRange(size) == (-2..1) \cup ((size - 2)..(size + 1))

LocalPoints ==
    {[x |-> x, y |-> y, z |-> z] :
        x \in AroundRange(CHUNK_WIDTH),
        y \in AroundRange(CHUNK_HEIGHT),
        z \in AroundRange(CHUNK_DEPTH)}

\* chunk coordinates of a player: near the origin, where the square of a
\* difference stops fitting i32 (46341 * 46341 > I32_MAX), and at the ends of
\* the i32 range, which `as i32` saturates to
PlayerCoords ==
    {I32_MIN, I32_MIN + 2, -50000, -46345, -46336, -3, 0, 3, 46336, 46345,
     50000, 65536, I32_MAX - 2, I32_MAX}

\* chunks of the initial load
LoadedSamples == {ChunkPosNew(x, z) : x \in {-RENDER_DISTANCE, 0, RENDER_DISTANCE},
                                     z \in {-RENDER_DISTANCE, 0}}

PlayerChunks == {ChunkPosNew(x, z) : x \in PlayerCoords, z \in {0, 50000, I32_MAX}}

\* the range of the parallel map of generate, line 50
CellIndices == 0..(CHUNK_WIDTH * CHUNK_HEIGHT * CHUNK_DEPTH - 1)

\* the in-bounds cells of a chunk
CellPositions ==
    [x : 0..(CHUNK_WIDTH - 1), y : 0..(CHUNK_HEIGHT - 1), z : 0..(CHUNK_DEPTH - 1)]

Calls ==
    {[fn |-> "compute_cube_indices", arg |-> n] : n \in 0..MaxVerts}
    \cup {[fn |-> "from_world", arg |-> w] : w \in WorldPoints}
    \cup {[fn |-> "is_pos_in_bounds", arg |-> l] : l \in LocalPoints}
    \cup {[fn |-> "eviction_test", arg |-> [chunk |-> c, player |-> q]] :
             c \in LoadedSamples, q \in PlayerChunks}
    \cup {[fn |-> "window_bounds", arg |-> q] : q \in PlayerChunks}

\* the calls whose outcome depends on the build are made in both builds
InitFn ==
    /\ NoStream
    /\ GenIdle
    /\ call \in Calls
    /\ overflow_checks \in IF call.fn \in {"eviction_test", "window_bounds"}
                           THEN BOOLEAN ELSE {TRUE}
    /\ ret = <<>>
    /\ NoLoad

\* the index builder returns a vector: its code has no failing path
CallIndices ==
    /\ call.fn = "compute_cube_indices"
    /\ ret = <<>>
    /\ ret' = <<[ok |-> TRUE, value |-> compute_cube_indices(call.arg)]>>
    /\ UNCHANGED <<call, streamVars, genVars, loadVars>>

CallFromWorld ==
    /\ call.fn = "from_world"
    /\ ret = <<>>
    /\ ret' = <<[ok |-> TRUE, value |-> from_world(call.arg)]>>
    /\ UNCHANGED <<call, streamVars, genVars, loadVars>>

CallInBounds ==
    /\ call.fn = "is_pos_in_bounds"
    /\ ret = <<>>
    /\ ret' = <<[ok |-> TRUE, value |-> is_pos_in_bounds(call.arg, ChunkDims)]>>
    /\ UNCHANGED <<call, streamVars, genVars, loadVars>>

\* the body of the loop of on_update for one chunk, lines 85-87: the value
\* is the outcome of the comparison; a build with overflow checks panics
\* where an operation overflows
CallEvictionTest ==
    /\ call.fn = "eviction_test"
    /\ ret = <<>>
    /\ ret' = IF overflow_checks
                 /\ distance_overflows([pos |-> call.arg.chunk], call.arg.player)
              THEN <<[ok |-> FALSE, value |-> "panic"]>>
              ELSE <<[ok |-> TRUE,
                      value |-> TooFar([pos |-> call.arg.chunk], call.arg.player)]>>
    /\ UNCHANGED <<call, streamVars, genVars, loadVars>>

\* the bounds of the window of load_chunks, lines 110-114
CallWindowBounds ==
    /\ call.fn = "window_bounds"
    /\ ret = <<>>
    /\ ret' = IF overflow_checks /\ bounds_overflow(call.arg)
              THEN <<[ok |-> FALSE, value |-> "panic"]>>
              ELSE <<[ok |-> TRUE, value |-> WindowBounds(call.arg)]>>
    /\ UNCHANGED <<call, streamVars, genVars, loadVars>>

\* the decoding of one index of the range, lines 53-55
CallDecode ==
    /\ call.fn = "decode"
    /\ ret = <<>>
    /\ ret' = <<[ok |-> TRUE, value |-> LocalPos(call.arg, ChunkDims)]>>
    /\ UNCHANGED <<call, streamVars, genVars, loadVars>>

CallCompute1d ==
    /\ call.fn = "compute_1d"
    /\ ret = <<>>
    /\ ret' = <<[ok |-> TRUE,
                 value |-> compute_1d(call.arg.x, call.arg.y, call.arg.z, ChunkDims)]>>
    /\ UNCHANGED <<call, streamVars, genVars, loadVars>>

NextFn ==
    \/ CallIndices
    \/ CallFromWorld
    \/ CallInBounds
    \/ CallEvictionTest
    \/ CallWindowBounds

SpecFn == InitFn /\ [][NextFn]_vars

(***************************************************************************)
(* SpecCell: the decoding of a cell index and compute_1d, one call of one  *)
(* of them, for every index of the range and every cell of a chunk         *)
(***************************************************************************)
InitCell ==
    /\ NoStream
    /\ GenIdle
    /\ \/ \E i \in CellIndices : call = [fn |-> "decode", arg |-> i]
       \/ \E l \in CellPositions : call = [fn |-> "compute_1d", arg |-> l]
    /\ overflow_checks = TRUE
    /\ ret = <<>>
    /\ NoLoad

NextCell == CallDecode \/ CallCompute1d

SpecCell == InitCell /\ [][NextCell]_vars

(***************************************************************************)
(* Properties of Chunk::generate                                           *)
(***************************************************************************)
NumCells == dims.w * dims.h * dims.d

Vertices == out[1].mesh.vertices

Indices == out[1].mesh.indices

NumQuads == Len(Vertices) \div 4

\* the cells of the chunk as local positions
Cells == {[x |-> x, y |-> y, z |-> z] :
             x \in 0..(dims.w - 1), y \in 0..(dims.h - 1), z \in 0..(dims.d - 1)}

\* the neighbour of cell c towards DirectionALL[k] lies outside the chunk
NeighbourOutside(c, k) ==
    LET n == Vec3Add(c, DirectionALL[k])
    IN  \/ n.x < 0 \/ n.x >= dims.w
        \/ n.y < 0 \/ n.y >= dims.h
        \/ n.z < 0 \/ n.z >= dims.d

\* the quads of the mesh that belong to cell c and direction DirectionALL[k]
QuadsOf(c, k) ==
    {q \in 1..NumQuads :
        /\ Vertices[4 * q - 3].at =
              [x |-> c.x + gpos.x * dims.w, y |-> c.y, z |-> c.z + gpos.z * dims.d]
        /\ Vertices[4 * q - 3].dir = DirectionALL[k]}

\* place of quad q in the order (linear cell index, place in Direction::ALL)
QuadKey(q) ==
    LET v == Vertices[4 * q - 3]
        x == v.at.x - gpos.x * dims.w
        z == v.at.z - gpos.z * dims.d
        k == CHOOSE n \in 1..Len(DirectionALL) : DirectionALL[n] = v.dir
    IN  (x + v.at.y * dims.w + z * dims.w * dims.h) * Len(DirectionALL) + k

\* the quad lists of the cells i, i+1, ... in ascending index, flattened
RECURSIVE CellsInOrder(_)
CellsInOrder(i) ==
    IF i >= NumCells THEN <<>>
    ELSE QuadVertices(CellResult(i, gpos, dims).visible_quads) \o CellsInOrder(i + 1)

\* C7: whatever order the parallel workers produce the cells in, generate
\* returns the same blocks, vertices and indices: the vertices are the
\* per-cell quad lists in ascending cell index, within a cell in
\* Direction::ALL order, and a second call returns the same value.
GenerateDeterministic ==
    gen_pc = "done" =>
        /\ out = <<generate(gpos, dims)>>
        /\ prev_out # <<>> => out = prev_out
        /\ Vertices = CellsInOrder(0)
        /\ \A q \in 1..(NumQuads - 1) : QuadKey(q) < QuadKey(q + 1)
        /\ \A q \in 1..NumQuads, n \in 0..3 :
              /\ Vertices[4 * q - 3 + n].at = Vertices[4 * q - 3].at
              /\ Vertices[4 * q - 3 + n].dir = Vertices[4 * q - 3].dir

\* the second call of generate on a chunk of several cells has returned
GenerateDeterministicWitness ==
    /\ gen_pc = "done"
    /\ prev_out # <<>>
    /\ NumCells >= 4
    /\ Len(verts) = NumCells
    /\ NumQuads > NumCells

\* C8: generate emits one quad for a cell and a direction iff the cell's
\* neighbour in that direction is outside the chunk, and none otherwise;
\* cells with six neighbours inside emit nothing; in all a chunk has
\* 2*(W*H + H*D + W*D) quads.
FaceVisibility ==
    gen_pc = "done" =>
        /\ \A c \in Cells, k \in 1..Len(DirectionALL) :
              Cardinality(QuadsOf(c, k)) = IF NeighbourOutside(c, k) THEN 1 ELSE 0
        /\ \A c \in Cells :
              (\A k \in 1..Len(DirectionALL) : ~NeighbourOutside(c, k)) =>
                  \A q \in 1..NumQuads :
                      Vertices[4 * q - 3].at # Translation(c, gpos, dims)
        /\ NumQuads = 2 * (dims.w * dims.h + dims.h * dims.d + dims.w * dims.d)
        /\ Len(Vertices) = 4 * NumQuads

\* a generated chunk with a cell whose six neighbours are all inside
FaceVisibilityWitness ==
    /\ gen_pc = "done"
    /\ out # <<>>
    /\ \E c \in Cells : \A k \in 1..Len(DirectionALL) : ~NeighbourOutside(c, k)
    /\ NumQuads > 0

\* the cells on a boundary face of the chunk
BoundaryCells == {c \in Cells : \E k \in 1..Len(DirectionALL) : NeighbourOutside(c, k)}

\* C9 as stated: the number of quads is six times the number of cells on a
\* boundary face of the chunk.
SixQuadsPerBoundaryCell ==
    gen_pc = "done" => NumQuads = 6 * Cardinality(BoundaryCells)

\* C9 amended: the number of quads is the number of (boundary cell, direction)
\* pairs whose neighbour is outside the chunk: one to six per boundary cell,
\* six only in a 1x1x1 chunk; a 2x2x2 chunk has three per cell, 24 in all;
\* the vertex count is a multiple of 4.
FaceCount ==
    gen_pc = "done" =>
        /\ NumQuads = Cardinality({pr \in BoundaryCells \X (1..Len(DirectionALL)) :
                                      NeighbourOutside(pr[1], pr[2])})
        /\ NumQuads <= 6 * Cardinality(BoundaryCells)
        /\ NumQuads >= Cardinality(BoundaryCells)
        /\ (NumQuads = 6 * Cardinality(BoundaryCells))
              <=> (dims = [w |-> 1, h |-> 1, d |-> 1])
        /\ dims = [w |-> 2, h |-> 2, d |-> 2] =>
              /\ NumQuads = 24
              /\ \A c \in Cells :
                    Cardinality({q \in 1..NumQuads :
                        Vertices[4 * q - 3].at = Translation(c, gpos, dims)}) = 3
        /\ Len(Vertices) % 4 = 0

\* the generated 2x2x2 chunk
FaceCountWitness ==
    /\ gen_pc = "done"
    /\ dims = [w |-> 2, h |-> 2, d |-> 2]
    /\ Cardinality(BoundaryCells) = 8
    /\ Len(Vertices) = 96

\* C10: in every mesh generate returns, the vertex count is a multiple of 4,
\* there are 6 indices per 4 vertices, num_elements is the index count and
\* every index is below the vertex count.
MeshShape ==
    gen_pc = "done" =>
        /\ Len(Vertices) % 4 = 0
        /\ Len(Indices) = 6 * (Len(Vertices) \div 4)
        /\ out[1].mesh.num_elements = Len(Indices)
        /\ \A j \in 1..Len(Indices) : Indices[j] >= 0 /\ Indices[j] < Len(Vertices)

\* a generated mesh of more than one quad
MeshShapeWitness ==
    /\ gen_pc = "done"
    /\ Len(Vertices) >= 8
    /\ Len(Indices) >= 12
    /\ out[1].mesh.num_elements > Len(Vertices)

Blocks == out[1].blocks

\* C15: the block array of a generated chunk has CHUNK_WIDTH * CHUNK_HEIGHT *
\* CHUNK_DEPTH elements; the element at linear index i is GRASS when the
\* decoded y of i is the top layer and DIRT otherwise, also for the cells
\* that emit no quad; no element is AIR.
TerrainRule ==
    gen_pc = "done" =>
        /\ Len(Blocks) = NumCells
        /\ \A i \in 0..(NumCells - 1) :
              /\ Blocks[i + 1] =
                    IF (i \div dims.w) % dims.h = dims.h - 1 THEN GRASS ELSE DIRT
              /\ Blocks[i + 1] # AIR

\* the generated 3x3x3 chunk: its middle cell emits no quad and is DIRT, its
\* last cell is GRASS
TerrainRuleWitness ==
    /\ gen_pc = "done"
    /\ dims = [w |-> 3, h |-> 3, d |-> 3]
    /\ \A k \in 1..6 : QuadsOf([x |-> 1, y |-> 1, z |-> 1], k) = {}
    /\ Blocks[14] = DIRT
    /\ Blocks[27] = GRASS

(***************************************************************************)
(* Properties of the index builder, ChunkPos and is_pos_in_bounds          *)
(* (under SpecFn)                                                          *)
(***************************************************************************)
Returned(fn) == call.fn = fn /\ ret # <<>>

\* C11: for every vertex count that is a multiple of 4 the index builder
\* returns vertex_count / 4 * 6 indices, the one at position 6q + k being
\* 4q + [0,1,2,2,1,3][k]; 4 gives [0,1,2,2,1,3] and 8 gives
\* [0,1,2,2,1,3,4,5,6,6,5,7]; the vertex count alone fixes the result.
IndexPattern ==
    (Returned("compute_cube_indices") /\ call.arg % 4 = 0) =>
        LET n == call.arg
            r == ret[1].value
        IN  /\ ret[1].ok
            /\ Len(r) = (n \div 4) * 6
            /\ \A q \in 0..((n \div 4) - 1) : \A k \in 0..5 :
                  r[6 * q + k + 1] = 4 * q + <<0, 1, 2, 2, 1, 3>>[k + 1]
            /\ (n = 4) => (r = <<0, 1, 2, 2, 1, 3>>)
            /\ (n = 8) => (r = <<0, 1, 2, 2, 1, 3, 4, 5, 6, 6, 5, 7>>)

IndexPatternWitness ==
    /\ Returned("compute_cube_indices")
    /\ call.arg = 8
    /\ Len(ret[1].value) = 12

FootprintPositions ==
    {ChunkPosNew(x, z) : x \in -MaxChunk..MaxChunk, z \in -MaxChunk..MaxChunk}
    \cup {ChunkPosNew(2, -8)}

InFootprint(w, p) ==
    /\ p.x * CHUNK_WIDTH <= w.x
    /\ w.x < (p.x + 1) * CHUNK_WIDTH
    /\ p.z * CHUNK_DEPTH <= w.z
    /\ w.z < (p.z + 1) * CHUNK_DEPTH

\* C13: from_world maps every world point of the footprint of a chunk
\* position p, negative coordinates included, to p; from_world(p.to_world())
\* is p; the division floors: (32, 0, -128) is in chunk (2, -8) and world
\* x = -1 is in chunk x = -1.
ChunkPosRoundTrip ==
    Returned("from_world") =>
        LET w == call.arg
            r == ret[1].value
        IN  /\ \E p \in FootprintPositions : InFootprint(w, p)
            /\ \A p \in FootprintPositions : InFootprint(w, p) => (r = p)
            /\ \A p \in FootprintPositions :
                  (w = to_world(p, ChunkDims)) => (r = p)
            /\ (w = [x |-> 32, y |-> 0, z |-> -128]) => (r = ChunkPosNew(2, -8))
            /\ (w.x = -1) => (r.x = -1)

ChunkPosRoundTripWitness ==
    /\ Returned("from_world")
    /\ call.arg.x = -1
    /\ call.arg.z = -(2 * CHUNK_DEPTH)
    /\ ret[1].value = ChunkPosNew(-1, -2)

\* C14: is_pos_in_bounds(pos) is true exactly when 0 <= x < CHUNK_WIDTH,
\* 0 <= y < CHUNK_HEIGHT and 0 <= z < CHUNK_DEPTH.
InBoundsRule ==
    Returned("is_pos_in_bounds") =>
        (ret[1].value <=>
            /\ 0 <= call.arg.x /\ call.arg.x < CHUNK_WIDTH
            /\ 0 <= call.arg.y /\ call.arg.y < CHUNK_HEIGHT
            /\ 0 <= call.arg.z /\ call.arg.z < CHUNK_DEPTH)

InBoundsRuleWitness ==
    /\ Returned("is_pos_in_bounds")
    /\ call.arg = [x |-> 0, y |-> CHUNK_HEIGHT - 1, z |-> CHUNK_DEPTH - 1]
    /\ ret[1].value

(***************************************************************************)
(* Failures of the surface and of the device (under SpecFault)             *)
(***************************************************************************)
\* C16: when the surface hands out no frame, render returns the error and
\* neither submits nor presents, no draw call is issued, the main loop logs
\* the error and goes on running, and the chunk list, the position set and
\* the buffers are as they were before the call.
SurfaceFailure ==
    /\ [](frame.surface = "lost" =>
            /\ frame.result = "err"
            /\ ~frame.submitted
            /\ ~frame.presented
            /\ frame.logged
            /\ running)
    /\ [][(frame' # frame /\ frame'.surface = "lost") =>
            UNCHANGED <<chunks, chunks_pos, released, next_buffer, draws,
                        player, marked, new_positions>>]_vars

\* a frame was lost after an update that evicted and loaded chunks, with the
\* draw calls of an earlier frame of that update
SurfaceFailureWitness ==
    /\ frame.surface = "lost"
    /\ updates >= 1
    /\ dirty
    /\ Len(chunks) > 0
    /\ draws # <<>>
    /\ running

BuffersCreatedByOwner ==
    \A b \in DOMAIN creator : creator[b] = "main"

NoneRunning(t) == \A k \in DOMAIN t : t[k] # "running"

AllDone(t) == \A k \in DOMAIN t : t[k] = "done"

\* C19: the position set and the chunk list are written only by the thread
\* that calls on_update and only while no closure of a parallel iterator is
\* running or waiting to run; the threads of the pool only read the set; the
\* two extends happen after both collects have returned.
ForkJoinIsolation ==
    [][/\ (chunks' # chunks \/ chunks_pos' # chunks_pos) =>
            /\ actor' = "main"
            /\ NoneRunning(task) /\ NoneRunning(task')
            /\ AllDone(task)
       /\ (actor' = PoolThread) =>
            /\ UNCHANGED <<chunks, chunks_pos, new_positions>>
            /\ pc \in {"filter", "create"}
       /\ (pc' \in {"merge_set", "merge_list"}) =>
            /\ AllDone(task')
            /\ Len(task') = Len(new_positions')
            /\ \A k \in DOMAIN results' : results'[k] # <<>>
    ]_vars

\* on_update returned after both iterators ran closures on the pool
ForkJoinIsolationWitness ==
    /\ pc = "idle"
    /\ updates >= 1
    /\ Len(new_positions) >= 2
    /\ \E i \in 1..Len(chunks) :
          /\ chunks[i].pos = new_positions[1]
          /\ creator[chunks[i].buffer] = PoolThread

\* C20: every removal of an update is over before a position of the window
\* is looked at or generated; no position is generated or inserted while
\* it is in the set; the chunk list never holds two chunks of one position,
\* during or after the update.
EvictionBeforeLoad ==
    /\ [](pc \in {"filter", "create", "merge_set", "merge_list"} =>
            /\ \A i \in 1..Len(chunks) : chunks[i].loaded /\ ~TooFar(chunks[i], player)
            /\ \A p \in chunks_pos : GridDistance2(p, player) <= Square(RENDER_DISTANCE))
    /\ [](pc = "create" =>
            /\ \A k \in 1..Len(new_positions) :
                  /\ new_positions[k] \notin chunks_pos
                  /\ \A i \in 1..Len(chunks) : chunks[i].pos # new_positions[k]
            /\ \A j, k \in 1..Len(new_positions) :
                  new_positions[j] = new_positions[k] => j = k)
    /\ [](\A i, j \in 1..Len(chunks) : chunks[i].pos = chunks[j].pos => i = j)
    /\ [][(\E p \in chunks_pos : p \notin chunks_pos') \/ Len(chunks') < Len(chunks) =>
            /\ pc \in {"mark", "unload"}
            /\ task = <<>>]_vars
    /\ [][(task' # task /\ pc' = pc) =>
            /\ \A i \in 1..Len(chunks) : chunks[i].loaded
            /\ UNCHANGED <<chunks, chunks_pos>>]_vars

\* chunks were evicted and the second iterator is generating new ones
EvictionBeforeLoadWitness ==
    /\ pc = "create"
    /\ marked # {}
    /\ \E k \in DOMAIN task : task[k] = "done"
    /\ \E k \in DOMAIN task : task[k] = "running"

(***************************************************************************)
(* The streaming window over a run of updates (under Spec)                 *)
(***************************************************************************)
\* C21: a render call issues one indexed draw for every chunk of the list,
\* in order, with the buffer of that chunk and the element count of its
\* mesh as index range; whenever render can run the list holds no chunk
\* with loaded == false, so the draws are those of the loaded chunks.
DrawSubmission ==
    /\ \A i \in 1..Len(chunks) : chunks[i].loaded
    /\ frame.result = "ok" =>
          /\ Len(draws) = Len(chunks)
          /\ \A i \in 1..Len(chunks) :
                /\ draws[i].buffer = chunks[i].buffer
                /\ draws[i].indices = chunks[i].num_elements
          /\ \A k \in 1..Len(draws) :
                Cardinality({i \in LoadedIndices : chunks[i].buffer = draws[k].buffer}) = 1

\* a frame drawn after an update that evicted and loaded chunks
DrawSubmissionWitness ==
    /\ frame.result = "ok"
    /\ dirty
    /\ marked # {}
    /\ new_positions # <<>>
    /\ Len(draws) > Len(new_positions)

\* the closed form of MeshElements is the element count generate computes
MeshElementsIsGenerated ==
    gen_pc = "done" => out[1].mesh.num_elements = MeshElements(dims)

\* C23 as stated: after every on_update, whether it evicted a chunk or not,
\* every position of the window [p.x - R/2, p.x + R/2] x [p.z - R/2,
\* p.z + R/2] around the player chunk p is in the loaded set.
WindowMaintained ==
    (updates >= 1 /\ update_outcome.result = "ok") =>
        SquareAround(player, RENDER_DISTANCE \div 2) \subseteq chunks_pos

\* for the players of Spec, whose distances to the loaded chunks have
\* squares within i32: after every on_update the chunk position of the
\* player is in the loaded set, also after an update that evicted nothing
\* and so did not call load_chunks
PlayerChunkLoaded ==
    (updates >= 1 /\ update_outcome.result = "ok") =>
        /\ from_world(player_pos) = player
        /\ player \in chunks_pos
        /\ \E i \in LoadedIndices : chunks[i].pos = player

\* an update that evicted nothing, after one that moved the window
PlayerChunkLoadedWitness ==
    /\ updates >= 2
    /\ ~dirty
    /\ player # ORIGIN
    /\ player \in chunks_pos

\* for the players of Spec: when on_update returns, every loaded chunk c has
\* (c.x - p.x)^2 + (c.z - p.z)^2 <= RENDER_DISTANCE^2 for the player chunk
\* p of the call; the chunks load_chunks generated lie within that radius,
\* an update at the position of the previous one evicts and loads nothing,
\* and no position evicted by an update is generated by it
PostUpdateDistance ==
    /\ []((updates >= 1 /\ update_outcome.result = "ok") =>
            /\ \A i \in 1..Len(chunks) :
                  GridDistance2(chunks[i].pos, player) <= Square(RENDER_DISTANCE)
            /\ \A p \in chunks_pos : GridDistance2(p, player) <= Square(RENDER_DISTANCE)
            /\ \A k \in 1..Len(new_positions) :
                  GridDistance2(new_positions[k], player) <= Square(RENDER_DISTANCE))
    /\ [][(updates' = updates + 1 /\ update_outcome'.result = "ok") =>
            /\ \A i \in 1..Len(chunks) :
                  GridDistance2(chunks[i].pos, player') > Square(RENDER_DISTANCE) =>
                      /\ chunks[i].pos \notin SeqToSet(new_positions')
                      /\ chunks[i].pos \notin chunks_pos'
            /\ (updates >= 1 /\ player' = player) =>
                  /\ ~dirty'
                  /\ new_positions' = <<>>
                  /\ chunks' = chunks
                  /\ chunks_pos' = chunks_pos]_vars

\* an update that evicted chunks, kept one at squared distance exactly
\* RENDER_DISTANCE^2 and generated others
PostUpdateDistanceWitness ==
    /\ updates >= 2
    /\ update_outcome.result = "ok"
    /\ dirty
    /\ marked # {}
    /\ new_positions # <<>>
    /\ \E i \in 1..Len(chunks) :
          GridDistance2(chunks[i].pos, player) = Square(RENDER_DISTANCE)

(***************************************************************************)
(* The position the main loop streams around (under SpecFrame)             *)
(***************************************************************************)
\* C22 as stated: in every frame update the streaming manager is called
\* with the world position the camera has in that frame, so the player
\* chunk of the update is from_world of that position.
CameraDrivenStreaming ==
    [][updates' = updates + 1 =>
          /\ player_pos' = camera
          /\ player' = from_world(camera)]_vars

(***************************************************************************)
(* The arithmetic of on_update and load_chunks (under SpecFn)              *)
(***************************************************************************)
\* the coordinates a and b are more than RENDER_DISTANCE apart, as integers
Apart(a, b) ==
    IF sub_overflows(a, b) THEN TRUE
    ELSE a - b > RENDER_DISTANCE \/ b - a > RENDER_DISTANCE

\* dx * dx + dz * dz > RENDER_DISTANCE * RENDER_DISTANCE over the integers
MathTooFar(c, q) ==
    IF Apart(c.x, q.x) \/ Apart(c.z, q.z) THEN TRUE
    ELSE (c.x - q.x) * (c.x - q.x) + (c.z - q.z) * (c.z - q.z)
            > RENDER_DISTANCE * RENDER_DISTANCE

\* C24: for any i32 player chunk coordinate, the subtraction and the squared
\* distance of on_update and the window bounds of load_chunks stay within
\* i32: the eviction test does not fail and decides as the comparison over
\* the integers does, and the bounds are the player's coordinates minus and
\* plus RENDER_DISTANCE / 2.
ArithmeticSafety ==
    /\ Returned("eviction_test") =>
          /\ ret[1].ok
          /\ ret[1].value = MathTooFar(call.arg.chunk, call.arg.player)
    /\ Returned("window_bounds") =>
          /\ ret[1].ok
          /\ ret[1].value.start_x < call.arg.x /\ call.arg.x < ret[1].value.end_x
          /\ ret[1].value.start_z < call.arg.z /\ call.arg.z < ret[1].value.end_z

(***************************************************************************)
(* The loaded set far from the origin (under SpecWide)                     *)
(***************************************************************************)
\* C27: when on_update returns, every loaded chunk and every loaded
\* position c has (c.x - p.x)^2 + (c.z - p.z)^2 <= RENDER_DISTANCE^2 for
\* the player chunk p of the call, wherever the player is.
LoadedWithinRadius ==
    (updates >= 1 /\ update_outcome.result = "ok") =>
        /\ \A i \in 1..Len(chunks) : ~MathTooFar(chunks[i].pos, player)
        /\ \A p \in chunks_pos : ~MathTooFar(p, player)

\* C26: after every on_update of a run from the initial load, for any
\* sequence of player positions, the chunk position of the player is in the
\* loaded set, also after an update that evicted nothing.
PlayerChunkLoadedAnywhere ==
    (updates >= 1 /\ update_outcome.result = "ok") =>
        /\ player \in chunks_pos
        /\ \E i \in 1..Len(chunks) : chunks[i].loaded /\ chunks[i].pos = player

(***************************************************************************)
(* Cell indices and cell positions (under SpecCell)                        *)
(***************************************************************************)
\* C25: the decoding of generate and compute_1d are inverse to each other:
\* compute_1d of the decoded cell of an index of [0, W * H * D) is the
\* index, the decoded cell of compute_1d of an in-bounds cell is the cell,
\* every decoded cell satisfies is_pos_in_bounds and every computed index
\* is in the range, so the enumeration visits every cell exactly once.
CellIndexRoundTrip ==
    /\ Returned("decode") =>
          /\ is_pos_in_bounds(ret[1].value, ChunkDims)
          /\ ret[1].value \in CellPositions
          /\ compute_1d(ret[1].value.x, ret[1].value.y, ret[1].value.z, ChunkDims)
                = call.arg
    /\ Returned("compute_1d") =>
          /\ ret[1].value \in CellIndices
          /\ LocalPos(ret[1].value, ChunkDims) = call.arg

\* the last index of the range decodes to the far top corner of the chunk
CellIndexRoundTripWitness ==
    /\ Returned("decode")
    /\ call.arg = CHUNK_WIDTH * CHUNK_HEIGHT * CHUNK_DEPTH - 1
    /\ ret[1].value = [x |-> CHUNK_WIDTH - 1, y |-> CHUNK_HEIGHT - 1,
                        z |-> CHUNK_DEPTH - 1]

====
